---- MODULE Spec2Model ----
(***************************************************************************)
(* A model of src/src/gpig/L2_utils.py: load_data, estimate_inv_pigments   *)
(* and _get_user_boundary.                                                 *)
(*                                                                         *)
(* Floating-point values are records [k, v]: k = "num" with the value v,   *)
(* k = "nan", or k = "inf" with v the sign.  Arrays are functions over     *)
(* 0..n-1, as the Python code indexes them.  Strings typed by the operator *)
(* are sequences of one-character strings.                                 *)
(***************************************************************************)
EXTENDS Integers, Sequences, FiniteSets, TLC

VARIABLES
    pc,               \* position of the run
    raised,           \* the exception that ended the run, or "none"
    printed,          \* what the last step printed, if anything
    L2_results, sal_results, temp_results,   \* load_data: search results
    L2_paths, sal_paths, temp_paths,         \* load_data: downloaded paths
    downloaded,       \* the folders earthaccess.download was called for
    Rrs, Rrs_unc,     \* geophysical_data of the L2 file, per swath cell
    smap_sss,         \* the salinity file's field, on its own axes
    analysed_sst,     \* the temperature file's field (Kelvin), on its own axes
    wavelength_coords,
    n, s, e, w,       \* the bounds of the box
    assigned,         \* history: the bounds assigned in the current attempt
    typed,            \* history: the last line the operator typed
    restarted,        \* history: an extraction has failed in this run
    rrs_box, rrs_unc_box,
    sal, temp,        \* the aligned salinity and temperature
    chla, chlb, chlc, ppc,
    progress, pixels,
    i, j,             \* the driver loop's indices
    emitted,          \* history: the counter values written to stdout
    invoked,          \* history: the cells the inversion was called for
    visited           \* history: the cells the loop body has been run for

loadVars == <<L2_results, sal_results, temp_results, L2_paths, sal_paths,
              temp_paths, downloaded>>
fileVars == <<Rrs, Rrs_unc, smap_sss, analysed_sst>>
boxVars == <<n, s, e, w, assigned, typed, restarted>>
gridVars == <<rrs_box, rrs_unc_box, sal, temp>>
pigVars == <<chla, chlb, chlc, ppc>>
loopVars == <<progress, pixels, i, j, emitted, invoked, visited>>
vars == <<pc, raised, printed, loadVars, fileVars, wavelength_coords, boxVars,
          gridVars, pigVars, loopVars>>

(***************************************************************************)
(* Bounds of the model.                                                    *)
(***************************************************************************)
NumLines == 3        \* scan lines of the swath
NumPixels == 3       \* pixels per scan line
NumBands == 2        \* wavelength bands
NumSal == 4          \* points per axis of the salinity grid
NumTemp == 5         \* points per axis of the temperature grid

Lines == 0 .. NumLines - 1
Pixels == 0 .. NumPixels - 1
Bands == 0 .. NumBands - 1

(***************************************************************************)
(* Floating-point values.                                                  *)
(***************************************************************************)
F(x) == [k |-> "num", v |-> x]
NaN == [k |-> "nan", v |-> 0]
Inf == [k |-> "inf", v |-> 1]
NegInf == [k |-> "inf", v |-> -1]
Unset == [k |-> "unset", v |-> 0]

IsNaN(x) == x.k = "nan"

\* a < b on floats: false when either side is NaN
Lt(a, b) ==
    CASE a.k = "nan" \/ b.k = "nan" -> FALSE
      [] a.k = "num" /\ b.k = "num" -> a.v < b.v
      [] a.k = "inf" /\ b.k = "num" -> a.v < 0
      [] a.k = "num" /\ b.k = "inf" -> b.v > 0
      [] OTHER -> a.v < b.v

\* x - c for an integer c
Minus(x, c) == IF x.k = "num" THEN F(x.v - c) ELSE x

SetMax(S) == CHOOSE x \in S : \A y \in S : y <= x
SetMin(S) == CHOOSE x \in S : \A y \in S : x <= y

\* the elements of a finite set of integers, ascending, as an array
Ascending(S) ==
    [a \in 0 .. Cardinality(S) - 1 |->
        CHOOSE x \in S : Cardinality({y \in S : y < x}) = a]

Size(arr) == Cardinality(DOMAIN arr)

(***************************************************************************)
(* The files.  navigation_data gives every swath cell a latitude and a     *)
(* longitude; scan lines are not parallel to the latitude axis.            *)
(***************************************************************************)
latitude == [ii \in Lines |-> [jj \in Pixels |-> 10 + 2 * ii + jj]]
longitude == [ii \in Lines |-> [jj \in Pixels |-> 20 + 2 * jj + ii]]

Cells == Lines \X Pixels

NaNSpectrum == [b \in Bands |-> NaN]

\* The cell's spectrum: all bands present, all missing, or only a band after
\* the leading one missing.
Spectrum(ii, jj, kind) ==
    [b \in Bands |->
        CASE kind = "all" -> NaN
          [] kind = "tail" /\ b > 0 -> NaN
          [] OTHER -> F(1 + 7 * ii + 3 * jj + b)]

\* The Rrs a file may hold: at most one cell of the swath's diagonal has
\* missing values.
RrsFiles ==
    {[ii \in Lines |-> [jj \in Pixels |->
        Spectrum(ii, jj, IF <<ii, jj>> \in m THEN kind ELSE "none")]] :
        m \in {{}} \cup {{c} : c \in {d \in Cells : d[1] + d[2] = NumLines - 1}},
        kind \in {"all", "tail"}}

RrsUncFile == [ii \in Lines |-> [jj \in Pixels |-> [b \in Bands |-> F(50 + 5 * ii + 2 * jj + b)]]]

WavelengthFile == [b \in Bands |-> F(400 + 25 * b)]

\* smap_sss: latitude axis descending, longitude axis ascending
sal_latitude == [a \in 0 .. NumSal - 1 |-> 19 - 2 * a]
sal_longitude == [a \in 0 .. NumSal - 1 |-> 19 + 3 * a]

SalFiles ==
    {[a \in 0 .. NumSal - 1 |-> [b \in 0 .. NumSal - 1 |->
        IF <<a, b>> \in m THEN NaN ELSE F(30 + NumSal * a + b)]] :
        m \in {{}} \cup {{<<a, a>>} : a \in 0 .. NumSal - 1}}

\* analysed_sst: both axes ascending, values in Kelvin
temp_lat == [a \in 0 .. NumTemp - 1 |-> 9 + 2 * a]
temp_lon == [a \in 0 .. NumTemp - 1 |-> 19 + 2 * a]

TempFiles ==
    {[a \in 0 .. NumTemp - 1 |-> [b \in 0 .. NumTemp - 1 |->
        IF <<a, b>> \in m THEN NaN ELSE F(280 + NumTemp * a + b)]] :
        m \in {{}} \cup {{<<a, a>>} : a \in 0 .. NumTemp - 1}}

(***************************************************************************)
(* What the operator may type at a prompt.                                 *)
(***************************************************************************)
InputStrings ==
    { <<"1", "1">>, <<" ", "1", "2", " ">>, <<"+", "1", "5">>,
      <<"2", "1">>, <<"2", "3">>, <<" ", "2", "5">>,
      <<"1", "0">>, <<"2", "0">>, <<"9">>, <<"3", "5">>,
      <<"-", "1", "5">>, <<"a", "b", "c">>, << >>, <<" ">>, <<"1", " ", "5">>,
      <<"n", "a", "n">>, <<"i", "n", "f">>, <<"-", "i", "n", "f">> }

Whitespace == {" "}
Digits == {"0", "1", "2", "3", "4", "5", "6", "7", "8", "9"}

DigitValue(c) ==
    CASE c = "0" -> 0 [] c = "1" -> 1 [] c = "2" -> 2 [] c = "3" -> 3
      [] c = "4" -> 4 [] c = "5" -> 5 [] c = "6" -> 6 [] c = "7" -> 7
      [] c = "8" -> 8 [] c = "9" -> 9

RECURSIVE LStrip(_)
LStrip(str) ==
    IF str # << >> /\ Head(str) \in Whitespace THEN LStrip(Tail(str)) ELSE str

RECURSIVE RStrip(_)
RStrip(str) ==
    IF str # << >> /\ str[Len(str)] \in Whitespace
    THEN RStrip(SubSeq(str, 1, Len(str) - 1))
    ELSE str

\* str.strip()
Strip(str) == RStrip(LStrip(str))

RECURSIVE DecimalValue(_)
DecimalValue(ds) ==
    IF ds = << >> THEN 0
    ELSE 10 * DecimalValue(SubSeq(ds, 1, Len(ds) - 1)) + DigitValue(ds[Len(ds)])

ParseError == [ok |-> FALSE, value |-> Unset]

\* float(str) without a sign: decimal digits, "nan" or "inf"
ParseUnsigned(str, sign) ==
    CASE str = <<"n", "a", "n">> -> [ok |-> TRUE, value |-> NaN]
      [] str = <<"i", "n", "f">> -> [ok |-> TRUE, value |-> [k |-> "inf", v |-> sign]]
      [] str # << >> /\ \A a \in 1 .. Len(str) : str[a] \in Digits ->
            [ok |-> TRUE, value |-> F(sign * DecimalValue(str))]
      [] OTHER -> ParseError

\* float(str): ok = FALSE stands for ValueError
ParseFloat(str) ==
    LET body == Strip(str) IN
    CASE body = << >> -> ParseError
      [] Head(body) = "-" -> ParseUnsigned(Tail(body), -1)
      [] Head(body) = "+" -> ParseUnsigned(Tail(body), 1)
      [] OTHER -> ParseUnsigned(body, 1)

NoMessage == <<"", Unset, Unset>>

\* the range test without its lower limit
InRangeUpperOnly(value, lower_bound, upper_bound) == Lt(value, upper_bound)

\* usr_inp < upper_bound and usr_inp > lower_bound
InRange(value, lower_bound, upper_bound) ==
    Lt(value, upper_bound) /\ Lt(lower_bound, value)

\* a loop that leaves on every line that parses, in range or not
get_user_boundary_any_float(lower_bound, upper_bound, usr_inp) ==
    LET parsed == ParseFloat(Strip(usr_inp)) IN
    IF parsed.ok
    THEN [ok |-> TRUE, value |-> parsed.value, msg |-> NoMessage]
    ELSE [ok |-> FALSE, value |-> Unset,
          msg |-> <<"Must enter a float.", Unset, Unset>>]

\* One pass of the loop of _get_user_boundary on the typed line usr_inp:
\* ok = TRUE is the break, and value what is returned.
get_user_boundary(lower_bound, upper_bound, usr_inp) ==
    LET parsed == ParseFloat(Strip(usr_inp)) IN
    CASE ~parsed.ok ->
            [ok |-> FALSE, value |-> Unset,
             msg |-> <<"Must enter a float.", Unset, Unset>>]
      [] parsed.ok /\ InRange(parsed.value, lower_bound, upper_bound) ->
            [ok |-> TRUE, value |-> parsed.value, msg |-> NoMessage]
      [] OTHER ->
            [ok |-> FALSE, value |-> Unset,
             msg |-> <<"Value must be between", upper_bound, lower_bound>>]

(***************************************************************************)
(* load_data                                                               *)
(***************************************************************************)
\* what earthaccess.search_data(..., count=1) may return
SearchResults(name) == {<< >>, <<name>>}

\* earthaccess.download(results, folder)
Download(results, folder) == [a \in 1 .. Len(results) |-> <<folder, results[a]>>]

LoadL2 ==
    /\ pc = "search_L2"
    /\ \E res \in SearchResults("PACE_OCI_L2_AOP") :
        /\ L2_results' = res
        /\ IF Len(res) > 0
           THEN /\ L2_paths' = Download(res, "L2_data")
                /\ downloaded' = downloaded \cup {"L2_data"}
                /\ printed' = NoMessage
           ELSE /\ L2_paths' = << >>
                /\ downloaded' = downloaded
                /\ printed' = <<"No L2 AOP data found", Unset, Unset>>
    /\ pc' = "search_sal"
    /\ UNCHANGED <<raised, sal_results, temp_results, sal_paths, temp_paths,
                   fileVars, wavelength_coords, boxVars, gridVars, pigVars, loopVars>>

LoadSal ==
    /\ pc = "search_sal"
    /\ \E res \in SearchResults("SMAP_JPL_L3_SSS_CAP_8DAY-RUNNINGMEAN_V5") :
        /\ sal_results' = res
        /\ IF Len(res) > 0
           THEN /\ sal_paths' = Download(res, "sal_data")
                /\ downloaded' = downloaded \cup {"sal_data"}
                /\ printed' = NoMessage
           ELSE /\ sal_paths' = << >>
                /\ downloaded' = downloaded
                /\ printed' = <<"No salinity data found", Unset, Unset>>
    /\ pc' = "search_temp"
    /\ UNCHANGED <<raised, L2_results, temp_results, L2_paths, temp_paths,
                   fileVars, wavelength_coords, boxVars, gridVars, pigVars, loopVars>>

LoadTemp ==
    /\ pc = "search_temp"
    /\ \E res \in SearchResults("MUR-JPL-L4-GLOB-v4.1") :
        /\ temp_results' = res
        /\ IF Len(res) > 0
           THEN /\ temp_paths' = Download(res, "temp_data")
                /\ downloaded' = downloaded \cup {"temp_data"}
                /\ printed' = NoMessage
           ELSE /\ temp_paths' = << >>
                /\ downloaded' = downloaded
                /\ printed' = <<"No temperature data found", Unset, Unset>>
    /\ pc' = "load_return"
    /\ UNCHANGED <<raised, L2_results, sal_results, L2_paths, sal_paths,
                   fileVars, wavelength_coords, boxVars, gridVars, pigVars, loopVars>>

\* return L2_paths[0], sal_paths[0], temp_paths[0]: indexing an empty list
\* raises IndexError
LoadReturn ==
    /\ pc = "load_return"
    /\ IF Len(L2_paths) > 0 /\ Len(sal_paths) > 0 /\ Len(temp_paths) > 0
       THEN pc' = "open" /\ raised' = raised
       ELSE pc' = "crashed" /\ raised' = "IndexError"
    /\ printed' = NoMessage
    /\ UNCHANGED <<loadVars, fileVars, wavelength_coords, boxVars,
                   gridVars, pigVars, loopVars>>

(***************************************************************************)
(* estimate_inv_pigments: the region selection                             *)
(***************************************************************************)
n_bound == F(SetMax({latitude[ii][jj] : ii \in Lines, jj \in Pixels}))
s_bound == F(SetMin({latitude[ii][jj] : ii \in Lines, jj \in Pixels}))
e_bound == F(SetMax({longitude[ii][jj] : ii \in Lines, jj \in Pixels}))
w_bound == F(SetMin({longitude[ii][jj] : ii \in Lines, jj \in Pixels}))

EmptyBox == [number_of_lines |-> << >>, pixels_per_line |-> << >>, data |-> << >>]

\* Opening the three groups of the L2 file (its Rrs is read here), the
\* coverage extents and the two lines printed before the first prompt.
Open ==
    /\ pc = "open"
    /\ wavelength_coords' = WavelengthFile
    /\ Rrs' \in RrsFiles
    /\ Rrs_unc' = RrsUncFile
    /\ printed' = <<"Select a boundary box within these coordinates to calculate pigments for",
                    Unset, Unset>>
    /\ pc' = "north"
    /\ UNCHANGED <<raised, loadVars, smap_sss, analysed_sst, boxVars, gridVars,
                   pigVars, loopVars>>

\* the south prompt limited by the coverage instead of the accepted north
SouthLimitsOfCoverage == [lower |-> s_bound, upper |-> n_bound]

\* the west prompt limited by the coverage instead of the accepted east
WestLimitsOfCoverage == [lower |-> w_bound, upper |-> e_bound]

\* The limits of the four prompts of one attempt
NorthLimits == [lower |-> s_bound, upper |-> n_bound]
SouthLimits == [lower |-> s_bound, upper |-> n]
EastLimits == [lower |-> w_bound, upper |-> e_bound]
WestLimits == [lower |-> w_bound, upper |-> e]

\* One line typed at a prompt of _get_user_boundary(lower_bound, upper_bound,
\* card_dir): the bound is returned, or a message is printed and the prompt
\* is repeated.
North ==
    /\ pc = "north"
    /\ \E usr_inp \in InputStrings :
        LET got == get_user_boundary(NorthLimits.lower, NorthLimits.upper, usr_inp) IN
        /\ typed' = usr_inp
        /\ IF got.ok
           THEN /\ n' = got.value
                /\ assigned' = assigned \cup {"north"}
                /\ pc' = "south"
                /\ printed' = NoMessage
           ELSE /\ printed' = got.msg
                /\ UNCHANGED <<n, assigned, pc>>
    /\ UNCHANGED <<raised, loadVars, fileVars, wavelength_coords, s, e, w, restarted,
                   gridVars, pigVars, loopVars>>

South ==
    /\ pc = "south"
    /\ \E usr_inp \in InputStrings :
        LET got == get_user_boundary(SouthLimits.lower, SouthLimits.upper, usr_inp) IN
        /\ typed' = usr_inp
        /\ IF got.ok
           THEN /\ s' = got.value
                /\ assigned' = assigned \cup {"south"}
                /\ pc' = "east"
                /\ printed' = NoMessage
           ELSE /\ printed' = got.msg
                /\ UNCHANGED <<s, assigned, pc>>
    /\ UNCHANGED <<raised, loadVars, fileVars, wavelength_coords, n, e, w, restarted,
                   gridVars, pigVars, loopVars>>

East ==
    /\ pc = "east"
    /\ \E usr_inp \in InputStrings :
        LET got == get_user_boundary(EastLimits.lower, EastLimits.upper, usr_inp) IN
        /\ typed' = usr_inp
        /\ IF got.ok
           THEN /\ e' = got.value
                /\ assigned' = assigned \cup {"east"}
                /\ pc' = "west"
                /\ printed' = NoMessage
           ELSE /\ printed' = got.msg
                /\ UNCHANGED <<e, assigned, pc>>
    /\ UNCHANGED <<raised, loadVars, fileVars, wavelength_coords, n, s, w, restarted,
                   gridVars, pigVars, loopVars>>

West ==
    /\ pc = "west"
    /\ \E usr_inp \in InputStrings :
        LET got == get_user_boundary(WestLimits.lower, WestLimits.upper, usr_inp) IN
        /\ typed' = usr_inp
        /\ IF got.ok
           THEN /\ w' = got.value
                /\ assigned' = assigned \cup {"west"}
                /\ pc' = "extract"
                /\ printed' = NoMessage
           ELSE /\ printed' = got.msg
                /\ UNCHANGED <<w, assigned, pc>>
    /\ UNCHANGED <<raised, loadVars, fileVars, wavelength_coords, n, s, e, restarted,
                   gridVars, pigVars, loopVars>>

\* (latitude > s) & (latitude < n) & (longitude < e) & (longitude > w)
InBox(ii, jj, nn, ss, ee, ww) ==
    /\ Lt(ss, F(latitude[ii][jj]))
    /\ Lt(F(latitude[ii][jj]), nn)
    /\ Lt(F(longitude[ii][jj]), ee)
    /\ Lt(ww, F(longitude[ii][jj]))

\* field.where(condition, drop=True): the scan lines and the pixel columns
\* that hold a cell of the box are kept, and the kept cells outside the box
\* are masked.
WhereDrop(field, nn, ss, ee, ww) ==
    LET ls == Ascending({ii \in Lines : \E jj \in Pixels : InBox(ii, jj, nn, ss, ee, ww)})
        ps == Ascending({jj \in Pixels : \E ii \in Lines : InBox(ii, jj, nn, ss, ee, ww)})
    IN [number_of_lines |-> ls,
        pixels_per_line |-> ps,
        data |-> [a \in DOMAIN ls |-> [b \in DOMAIN ps |->
                    IF InBox(ls[a], ps[b], nn, ss, ee, ww)
                    THEN field[ls[a]][ps[b]]
                    ELSE NaNSpectrum]]]

\* a restart that asks again from the south prompt only
RestartAtSouth == "south"

\* where the except clause continues: the top of the while loop
RestartAt == "north"

\* The box extraction of one attempt.  Whether xarray raises ValueError is
\* decided inside the library: both outcomes are possible for any box.
Extract ==
    /\ pc = "extract"
    /\ \/ /\ rrs_box' = WhereDrop(Rrs, n, s, e, w)
          /\ pc' = "prepare"
          /\ printed' = NoMessage
          /\ UNCHANGED <<assigned, restarted>>
       \/ /\ printed' = <<"Try increasing the size of the boundary box.", Unset, Unset>>
          /\ pc' = RestartAt
          /\ assigned' = {}
          /\ restarted' = TRUE
          /\ UNCHANGED rrs_box
    /\ UNCHANGED <<raised, loadVars, fileVars, wavelength_coords, n, s, e, w, typed,
                   rrs_unc_box, sal, temp, pigVars, loopVars>>

(***************************************************************************)
(* estimate_inv_pigments: the alignment of salinity and temperature        *)
(***************************************************************************)
KelvinOffset == 273

\* axis.sel(slice(start, stop)): the positions of the axis whose label lies
\* between start and stop, both included, in the direction of the axis
SelSlice(axis, start, stop) ==
    IF Size(axis) < 2 \/ axis[0] < axis[1]
    THEN {a \in DOMAIN axis : start <= axis[a] /\ axis[a] <= stop}
    ELSE {a \in DOMAIN axis : start >= axis[a] /\ axis[a] >= stop}

\* sal["smap_sss"].sel({"latitude": slice(n, s), "longitude": slice(w, e)})
SalSel(nn, ss, ee, ww) ==
    [lat |-> SelSlice(sal_latitude, nn.v, ss.v),
     lon |-> SelSlice(sal_longitude, ww.v, ee.v)]

\* temp.sel({"lat": slice(s, n), "lon": slice(w, e)})
TempSel(nn, ss, ee, ww) ==
    [lat |-> SelSlice(temp_lat, ss.v, nn.v),
     lon |-> SelSlice(temp_lon, ww.v, ee.v)]

\* the offset taken off twice
CelsiusTwice(x) == Minus(Minus(x, KelvinOffset), KelvinOffset)

\* temp - 273
Celsius(x) == Minus(x, KelvinOffset)

Dist(a, b) == IF a < b THEN b - a ELSE a - b

\* The position, among the kept positions K of the axis, nearest to x; -1
\* when x lies outside the kept labels' extent (interpolation does not
\* extrapolate).  Of two positions equally near, the lower label is taken.
NearestOn(axis, K, x) ==
    IF K = {} THEN -1
    ELSE IF x < SetMin({axis[a] : a \in K}) \/ x > SetMax({axis[a] : a \in K}) THEN -1
    ELSE CHOOSE a \in K :
            \A b \in K : \/ Dist(axis[a], x) < Dist(axis[b], x)
                         \/ Dist(axis[a], x) = Dist(axis[b], x) /\ axis[a] <= axis[b]

\* field.interp(lon=..., lat=..., method='nearest') at one pixel (y, x)
InterpNearest(field, latAxis, lonAxis, sel, y, x) ==
    LET a == NearestOn(latAxis, sel.lat, y)
        b == NearestOn(lonAxis, sel.lon, x)
    IN IF a = -1 \/ b = -1 THEN NaN ELSE field[a][b]

BoxLat(box, a, b) == latitude[box.number_of_lines[a]][box.pixels_per_line[b]]
BoxLon(box, a, b) == longitude[box.number_of_lines[a]][box.pixels_per_line[b]]

AlignSal(field, box, nn, ss, ee, ww) ==
    [a \in DOMAIN box.number_of_lines |-> [b \in DOMAIN box.pixels_per_line |->
        InterpNearest(field, sal_latitude, sal_longitude, SalSel(nn, ss, ee, ww),
                      BoxLat(box, a, b), BoxLon(box, a, b))]]

AlignTemp(field, box, nn, ss, ee, ww) ==
    [a \in DOMAIN box.number_of_lines |-> [b \in DOMAIN box.pixels_per_line |->
        InterpNearest([p \in DOMAIN field |-> [q \in DOMAIN field[p] |->
                            Celsius(field[p][q])]],
                      temp_lat, temp_lon, TempSel(nn, ss, ee, ww),
                      BoxLat(box, a, b), BoxLon(box, a, b))]]

\* np.full((number_of_lines.size, pixels_per_line.size), np.nan)
FullNaN(box) ==
    [a \in DOMAIN box.number_of_lines |-> [b \in DOMAIN box.pixels_per_line |-> NaN]]

\* Interpolating onto no pixel, or from an axis with no sample left, is
\* outside what the code controls: the library may raise.
InterpMayRaise ==
    \/ Size(rrs_box.number_of_lines) = 0
    \/ SalSel(n, s, e, w).lat = {} \/ SalSel(n, s, e, w).lon = {}
    \/ TempSel(n, s, e, w).lat = {} \/ TempSel(n, s, e, w).lon = {}

\* the uncertainty subset cut with the coverage extents
UncBoxOfCoverage == WhereDrop(Rrs_unc, n_bound, s_bound, e_bound, w_bound)

\* dataset_ru["Rrs_unc"].where(..., drop=True) with n, s, e, w as the
\* selection loop left them
UncBox == WhereDrop(Rrs_unc, n, s, e, w)

\* From the uncertainty subset to the start of the loop; the salinity and
\* temperature files are read here.
Prepare ==
    /\ pc = "prepare"
    /\ smap_sss' \in SalFiles
    /\ analysed_sst' \in TempFiles
    /\ \/ /\ rrs_unc_box' = UncBox
          /\ sal' = AlignSal(smap_sss', rrs_box, n, s, e, w)
          /\ temp' = AlignTemp(analysed_sst', rrs_box, n, s, e, w)
          /\ chla' = FullNaN(rrs_box)
          /\ chlb' = FullNaN(rrs_box)
          /\ chlc' = FullNaN(rrs_box)
          /\ ppc' = FullNaN(rrs_box)
          /\ progress' = 1
          /\ pixels' = Size(rrs_box.number_of_lines) * Size(rrs_box.pixels_per_line)
          /\ i' = 0
          /\ j' = 0
          /\ pc' = IF pixels' = 0 THEN "done" ELSE "report"
          /\ UNCHANGED raised
       \/ /\ InterpMayRaise
          /\ raised' = "ValueError"
          /\ pc' = "crashed"
          /\ UNCHANGED <<rrs_unc_box, sal, temp, pigVars, progress, pixels, i, j>>
    /\ UNCHANGED <<printed, loadVars, Rrs, Rrs_unc, wavelength_coords, boxVars,
                   rrs_box, emitted, invoked, visited>>

(***************************************************************************)
(* estimate_inv_pigments: the driver loop                                  *)
(***************************************************************************)
Value(x) == IF x.k = "num" THEN x.v ELSE -1

RECURSIVE Weigh(_, _)
Weigh(arr, b) ==
    IF b \notin DOMAIN arr THEN 0 ELSE (b + 2) * Value(arr[b]) + Weigh(arr, b + 1)

\* The inversion function of rrs_inversion_pigments.py: deterministic, and
\* returning the four pigments as its first result group.
rrs_inversion_pigments(Rrs_in, Rrs_unc_in, wl, temp_in, sal_in) ==
    [g \in 0 .. 1 |-> [c \in 0 .. 3 |->
        F(10000 * g + 1000 * (c + 1) + Weigh(Rrs_in, 0) + 5 * Weigh(Rrs_unc_in, 0)
          + Weigh(wl, 0) + 7 * Value(temp_in) + 11 * Value(sal_in))]]

\* the skip rule without its temperature test
SkippedIgnoringTemp(r, sal_val, temp_val) == IsNaN(r[0]) \/ IsNaN(sal_val)

\* a skip rule that wants all three inputs missing
SkippedWhenAllMissing(r, sal_val, temp_val) ==
    IsNaN(r[0]) /\ IsNaN(sal_val) /\ IsNaN(temp_val)

\* np.isnan(r[0]) or np.isnan(sal_val) or np.isnan(temp_val)
Skipped(r, sal_val, temp_val) == IsNaN(r[0]) \/ IsNaN(sal_val) \/ IsNaN(temp_val)

\* the call with temperature and salinity exchanged
CellPigsSwapped(r, ru, wl, temp_val, sal_val) ==
    rrs_inversion_pigments(r, ru, wl, sal_val, temp_val)[0]

\* rrs_inversion_pigments(r, ru, wavelength_coords, temp_val, sal_val)[0]
CellPigs(r, ru, wl, temp_val, sal_val) ==
    rrs_inversion_pigments(r, ru, wl, temp_val, sal_val)[0]

\* a store that fills the whole scan line of the cell
StoreWholeLine(arr, a, b, value) == [arr EXCEPT ![a] = [x \in DOMAIN arr[a] |-> value]]

\* rrs_box[name][i][j] = value
Store(arr, a, b, value) == [arr EXCEPT ![a][b] = value]

\* a loop that takes a failed inversion for a skip and goes on
OnInversionErrorGoOn == "report"

\* Where an exception of the inversion function leaves the run: line 194
\* stands in no try block, so it leaves estimate_inv_pigments.
OnInversionError == "crashed"

\* the next pass of the loops, or their end
Advance ==
    IF j + 1 < Size(rrs_box.pixels_per_line)
    THEN /\ j' = j + 1
         /\ i' = i
         /\ pc' = "report"
    ELSE /\ j' = 0
         /\ i' = i + 1
         /\ pc' = IF i + 1 < Size(rrs_box.number_of_lines) THEN "report" ELSE "done"

\* a counter that is never advanced
NextProgressStuck(p) == p

\* progress += 1
NextProgress(p) == p + 1

\* sys.stdout.write('\rProgress: ...'); progress += 1
Report ==
    /\ pc = "report"
    /\ emitted' = Append(emitted, <<progress, pixels>>)
    /\ progress' = NextProgress(progress)
    /\ pc' = "cell"
    /\ UNCHANGED <<raised, printed, loadVars, fileVars, wavelength_coords, boxVars,
                   gridVars, pigVars, pixels, i, j, invoked, visited>>

\* The rest of the loop body for cell (i, j)
Cell ==
    /\ pc = "cell"
    /\ visited' = Append(visited, <<i, j>>)
    /\ LET r == rrs_box.data[i][j]
           ru == rrs_unc_box.data[i][j]
           sal_val == sal[i][j]
           temp_val == temp[i][j]
           pigs == CellPigs(r, ru, wavelength_coords, temp_val, sal_val)
       IN IF Skipped(r, sal_val, temp_val)
          THEN /\ Advance
               /\ UNCHANGED <<raised, pigVars, invoked>>
          ELSE \/ /\ chla' = Store(chla, i, j, pigs[0])
                  /\ chlb' = Store(chlb, i, j, pigs[1])
                  /\ chlc' = Store(chlc, i, j, pigs[2])
                  /\ ppc' = Store(ppc, i, j, pigs[3])
                  /\ invoked' = Append(invoked, <<i, j>>)
                  /\ Advance
                  /\ UNCHANGED raised
               \/ /\ raised' = "InversionError"
                  /\ invoked' = Append(invoked, <<i, j>>)
                  /\ pc' = OnInversionError
                  /\ UNCHANGED <<pigVars, i, j>>
    /\ UNCHANGED <<printed, loadVars, fileVars, wavelength_coords, boxVars,
                   gridVars, progress, pixels, emitted>>

(***************************************************************************)
(* The run: load_data, then estimate_inv_pigments on what it returned.     *)
(***************************************************************************)
Init ==
    /\ pc = "search_L2"
    /\ raised = "none"
    /\ printed = NoMessage
    /\ L2_results = << >> /\ sal_results = << >> /\ temp_results = << >>
    /\ L2_paths = << >> /\ sal_paths = << >> /\ temp_paths = << >>
    /\ downloaded = {}
    /\ Rrs = << >> /\ Rrs_unc = << >>
    /\ smap_sss = << >> /\ analysed_sst = << >>
    /\ wavelength_coords = << >>
    /\ n = Unset /\ s = Unset /\ e = Unset /\ w = Unset
    /\ assigned = {}
    /\ typed = << >>
    /\ restarted = FALSE
    /\ rrs_box = EmptyBox
    /\ rrs_unc_box = EmptyBox
    /\ sal = << >> /\ temp = << >>
    /\ chla = << >> /\ chlb = << >> /\ chlc = << >> /\ ppc = << >>
    /\ progress = 0 /\ pixels = 0
    /\ i = 0 /\ j = 0
    /\ emitted = << >>
    /\ invoked = << >>
    /\ visited = << >>

Next ==
    \/ LoadL2 \/ LoadSal \/ LoadTemp \/ LoadReturn
    \/ Open
    \/ North \/ South \/ East \/ West
    \/ Extract
    \/ Prepare
    \/ Report
    \/ Cell

Spec == Init /\ [][Next]_vars

(***************************************************************************)
(* Properties                                                              *)
(***************************************************************************)
BoxCells == {c \in (DOMAIN rrs_box.number_of_lines) \X (DOMAIN rrs_box.pixels_per_line) : TRUE}

\* the swath cell behind cell (a, b) of the box-restricted grid
SwathLine(a) == rrs_box.number_of_lines[a]
SwathPixel(b) == rrs_box.pixels_per_line[b]

InputMissing(a, b) ==
    IsNaN(rrs_box.data[a][b][0]) \/ IsNaN(sal[a][b]) \/ IsNaN(temp[a][b])

PigmentsMissing(a, b) ==
    chla[a][b] = NaN /\ chlb[a][b] = NaN /\ chlc[a][b] = NaN /\ ppc[a][b] = NaN

\* C1: when the driver loop has completed, every cell whose leading
\* reflectance value, aligned salinity or aligned temperature is missing has
\* all four pigment outputs still missing.
C1_MissingInputsStayMissing ==
    pc = "done" =>
        \A c \in BoxCells : InputMissing(c[1], c[2]) => PigmentsMissing(c[1], c[2])

\* A completed run with a cell skipped for each of the three reasons.
C1_Witness ==
    /\ pc = "done"
    /\ \E c \in BoxCells : IsNaN(rrs_box.data[c[1]][c[2]][0])
    /\ \E c \in BoxCells : /\ ~IsNaN(rrs_box.data[c[1]][c[2]][0])
                           /\ IsNaN(sal[c[1]][c[2]])
                           /\ ~IsNaN(temp[c[1]][c[2]])
                           /\ PigmentsMissing(c[1], c[2])
    /\ \E c \in BoxCells : /\ ~IsNaN(rrs_box.data[c[1]][c[2]][0])
                           /\ ~IsNaN(sal[c[1]][c[2]])
                           /\ IsNaN(temp[c[1]][c[2]])
                           /\ PigmentsMissing(c[1], c[2])

\* C2: when the driver loop has completed, the four pigment outputs of every
\* cell with present inputs are components 0..3 of the first result group of
\* the inversion function applied to that swath cell's reflectance and
\* uncertainty spectra, the wavelengths, and that cell's aligned temperature
\* and salinity, in this order.
C2_PigmentsAreTheInversionOfTheCell ==
    pc = "done" =>
        \A c \in BoxCells :
            ~InputMissing(c[1], c[2]) =>
                LET a == c[1]
                    b == c[2]
                    first == rrs_inversion_pigments(
                                Rrs[SwathLine(a)][SwathPixel(b)],
                                Rrs_unc[SwathLine(a)][SwathPixel(b)],
                                WavelengthFile, temp[a][b], sal[a][b])[0]
                IN /\ chla[a][b] = first[0]
                   /\ chlb[a][b] = first[1]
                   /\ chlc[a][b] = first[2]
                   /\ ppc[a][b] = first[3]

\* A completed run with two computed cells.
C2_Witness ==
    /\ pc = "done"
    /\ \E c, d \in BoxCells :
        /\ c # d
        /\ ~InputMissing(c[1], c[2]) /\ ~PigmentsMissing(c[1], c[2])
        /\ ~InputMissing(d[1], d[2]) /\ ~PigmentsMissing(d[1], d[2])

\* the number of cells of the box-restricted grid
TotalCells == Size(rrs_box.number_of_lines) * Size(rrs_box.pixels_per_line)

\* C3: the counter values written are 1, 2, 3, ... without gap or repeat, one
\* per cell attempted, skipped or computed, and the last value written when
\* the loop has completed is the number of cells of the box-restricted grid.
C3_ProgressCountsEveryCellOnce ==
    /\ \A k \in 1 .. Len(emitted) : emitted[k] = <<k, TotalCells>>
    /\ pc = "report" => Len(emitted) = i * Size(rrs_box.pixels_per_line) + j
    /\ pc = "cell" => Len(emitted) = i * Size(rrs_box.pixels_per_line) + j + 1
    /\ pc = "done" => Len(emitted) = TotalCells

\* A completed run over several cells, some skipped and some computed.
C3_Witness ==
    /\ pc = "done"
    /\ Len(emitted) > 2
    /\ emitted[Len(emitted)][1] = TotalCells
    /\ \E c \in BoxCells : PigmentsMissing(c[1], c[2])
    /\ \E c \in BoxCells : ~PigmentsMissing(c[1], c[2])

PromptStates == {"north", "south", "east", "west"}
AllBounds == {"north", "south", "east", "west"}

\* the positions at which a box has been handed to the extraction
HandedStates == {"extract", "prepare", "report", "cell", "done"}

\* C4: every box handed to the extraction, and so every accepted box, has
\* south < north and west < east, whatever was typed before, rejected lines
\* and restarted attempts included.
C4_BoxIsOrdered ==
    pc \in HandedStates => Lt(s, n) /\ Lt(w, e)

\* A box handed to the extraction in an attempt that follows a failed one.
C4_Witness ==
    pc = "extract" /\ restarted /\ assigned = AllBounds /\ Lt(s, n) /\ Lt(w, e)

\* C5: the extraction is only attempted with all four bounds strictly inside
\* the swath's coverage: north and south between the least and the greatest
\* latitude, east and west between the least and the greatest longitude.
C5_BoundsInsideCoverage ==
    pc \in HandedStates =>
        /\ Lt(s_bound, n) /\ Lt(n, n_bound)
        /\ Lt(s_bound, s) /\ Lt(s, n_bound)
        /\ Lt(w_bound, e) /\ Lt(e, e_bound)
        /\ Lt(w_bound, w) /\ Lt(w, e_bound)

\* A west bound outside the coverage has been typed as the last bound of an
\* attempt and refused.
C5_Witness ==
    /\ pc = "west"
    /\ typed = <<"3", "5">>
    /\ printed = <<"Value must be between", e, w_bound>>
    /\ assigned = {"north", "south", "east"}

NonNumericInputs == { <<"a", "b", "c">>, << >>, <<" ">>, <<"1", " ", "5">> }
OutsideInputs == { <<"9">>, <<"3", "5">>, <<"-", "1", "5">>, <<"n", "a", "n">>,
                   <<"i", "n", "f">>, <<"-", "i", "n", "f">> }

\* what a step taken at a prompt may do
PromptStepIsSound ==
    pc \in PromptStates =>
        /\ raised' = "none"
        /\ pc' \in PromptStates \cup {"extract"}
        /\ typed' \in NonNumericInputs =>
                pc' = pc /\ printed' = <<"Must enter a float.", Unset, Unset>>
        /\ typed' \in OutsideInputs =>
                pc' = pc /\ printed'[1] = "Value must be between"
        /\ IF pc' = pc
           THEN /\ <<n', s', e', w'>> = <<n, s, e, w>>
                /\ printed'[1] \in {"Must enter a float.", "Value must be between"}
           ELSE LET lower == IF pc \in {"north", "south"} THEN s_bound ELSE w_bound
                    upper == CASE pc = "north" -> n_bound
                               [] pc = "south" -> n
                               [] pc = "east" -> e_bound
                               [] pc = "west" -> e
                    value == CASE pc = "north" -> n'
                               [] pc = "south" -> s'
                               [] pc = "east" -> e'
                               [] pc = "west" -> w'
                IN /\ value.k = "num"
                   /\ Lt(lower, value) /\ Lt(value, upper)
                   /\ pc # "north" => n' = n
                   /\ pc # "south" => s' = s
                   /\ pc # "east" => e' = e
                   /\ pc # "west" => w' = w

\* C6: a step of a prompt never ends the run; a line that is no number, or a
\* number outside the limits, prints a message, keeps the prompt and changes
\* no bound; the prompt is left only with a number strictly between its
\* limits, and the bounds accepted before stay as they are.
C6_PromptRetriesUntilValid == [][PromptStepIsSound]_vars

\* A line that is no number has been refused at the east prompt, with north
\* and south accepted before it.
C6_Witness ==
    /\ pc = "east"
    /\ typed \in NonNumericInputs
    /\ printed = <<"Must enter a float.", Unset, Unset>>
    /\ assigned = {"north", "south"}
    /\ n.k = "num" /\ s.k = "num"

\* the bounds assigned so far in an attempt that stands at prompt p
AssignedBefore(p) ==
    CASE p = "north" -> {}
      [] p = "south" -> {"north"}
      [] p = "east" -> {"north", "south"}
      [] p = "west" -> {"north", "south", "east"}
      [] OTHER -> AllBounds

\* C7: a failed extraction does not end the run and is followed by the north
\* prompt of a new attempt, in which every bound is asked again before it is
\* used; the run gets past the selection only by an extraction that succeeded.
C7_FailedExtractionRestartsFromNorth ==
    /\ [][pc = "extract" =>
            \/ pc' = "north" /\ raised' = "none" /\ assigned' = {}
            \/ pc' = "prepare" /\ rrs_box' = WhereDrop(Rrs, n, s, e, w)]_vars
    /\ [][pc' = "prepare" => pc \in {"extract", "prepare"}]_vars
    /\ [](pc \in PromptStates \cup {"extract"} => assigned = AssignedBefore(pc))

\* After a failed extraction the selector stands at the north prompt, the
\* bounds of the failed attempt still in its variables.
C7_Witness ==
    /\ pc = "north"
    /\ restarted
    /\ assigned = {}
    /\ n.k = "num" /\ s.k = "num" /\ e.k = "num" /\ w.k = "num"
    /\ printed = <<"Try increasing the size of the boundary box.", Unset, Unset>>

\* C8: an empty search result for any of the three datasets is reported and
\* does not end load_data with an index error, and nothing is downloaded for
\* a dataset whose search result is empty.
C8_EmptyResultIsNoIndexError ==
    /\ raised # "IndexError"
    /\ pc \notin {"search_L2"} /\ L2_results = << >> => "L2_data" \notin downloaded
    /\ pc \notin {"search_L2", "search_sal"} /\ sal_results = << >> =>
            "sal_data" \notin downloaded
    /\ pc \notin {"search_L2", "search_sal", "search_temp"} /\ temp_results = << >> =>
            "temp_data" \notin downloaded

\* C9: the selection is left only with a box whose restriction of the swath
\* holds at least one cell.
C9_AcceptedBoxHoldsACell ==
    pc \in {"prepare", "report", "cell", "done"} =>
        Size(rrs_box.number_of_lines) > 0 /\ Size(rrs_box.pixels_per_line) > 0

\* the positions of the axis nearest to x, over the whole axis
NearestPositions(axis, x) ==
    {a \in DOMAIN axis : \A b \in DOMAIN axis : Dist(axis[a], x) <= Dist(axis[b], x)}

\* C10: the aligned salinity and the aligned temperature of every cell of the
\* box-restricted grid are the value of the field, as the file supplies it,
\* at a grid point nearest to the cell on each axis, cells near the edge of
\* the box included.
C10_AlignedIsNearestOfSuppliedField ==
    pc \in {"report", "cell", "done"} =>
        \A c \in BoxCells :
            LET y == BoxLat(rrs_box, c[1], c[2])
                x == BoxLon(rrs_box, c[1], c[2])
            IN /\ sal[c[1]][c[2]] \in
                    {smap_sss[p][q] : p \in NearestPositions(sal_latitude, y),
                                      q \in NearestPositions(sal_longitude, x)}
               /\ temp[c[1]][c[2]] \in
                    {Minus(analysed_sst[p][q], KelvinOffset) :
                        p \in NearestPositions(temp_lat, y),
                        q \in NearestPositions(temp_lon, x)}

LoopStates == {"report", "cell", "done"}

\* C11: an exception of the inversion function on a cell that is not skipped
\* ends the run at that cell: the cell's pigments are not written, no later
\* cell is visited, nothing changes afterwards and the grid is not returned.
C11_InversionFailureEndsTheRun ==
    /\ [](raised = "InversionError" =>
            /\ pc = "crashed"
            /\ invoked # << >> /\ invoked[Len(invoked)] = <<i, j>>
            /\ ~InputMissing(i, j)
            /\ PigmentsMissing(i, j)
            /\ Len(visited) = i * Size(rrs_box.pixels_per_line) + j + 1)
    /\ [][raised = "InversionError" => UNCHANGED vars]_vars

\* The inversion has failed on a cell after another cell was computed and
\* with cells still to come.
C11_Witness ==
    /\ raised = "InversionError"
    /\ Len(invoked) > 1
    /\ Len(visited) < TotalCells
    /\ \E c \in BoxCells : ~PigmentsMissing(c[1], c[2])

\* the sample of the temperature file that the alignment takes for cell
\* (a, b): its position on each axis, -1 for none
TempSample(a, b) ==
    [lat |-> NearestOn(temp_lat, TempSel(n, s, e, w).lat, BoxLat(rrs_box, a, b)),
     lon |-> NearestOn(temp_lon, TempSel(n, s, e, w).lon, BoxLon(rrs_box, a, b))]

\* C12: the aligned temperature of a cell is the Kelvin value of its sample
\* less 273, taken off once, and this is the temperature the inversion of
\* the cell is computed from.
C12_TemperatureIsKelvinLess273 ==
    pc \in LoopStates =>
        \A c \in BoxCells :
            LET at == TempSample(c[1], c[2])
                aligned == temp[c[1]][c[2]]
            IN /\ IF at.lat = -1 \/ at.lon = -1
                  THEN IsNaN(aligned)
                  ELSE LET kelvin == analysed_sst[at.lat][at.lon]
                       IN IF kelvin.k = "num"
                          THEN aligned = [k |-> "num", v |-> kelvin.v - 273]
                          ELSE IsNaN(aligned)
               /\ ~PigmentsMissing(c[1], c[2]) =>
                    /\ at.lat # -1 /\ at.lon # -1
                    /\ chla[c[1]][c[2]] =
                        rrs_inversion_pigments(
                            rrs_box.data[c[1]][c[2]], rrs_unc_box.data[c[1]][c[2]],
                            wavelength_coords,
                            [k |-> "num", v |-> analysed_sst[at.lat][at.lon].v - 273],
                            sal[c[1]][c[2]])[0][0]

\* A completed run with a cell computed from a converted temperature and a
\* cell whose temperature sample is missing.
C12_Witness ==
    /\ pc = "done"
    /\ \E c \in BoxCells : temp[c[1]][c[2]].k = "num" /\ ~PigmentsMissing(c[1], c[2])
    /\ \E c \in BoxCells : /\ TempSample(c[1], c[2]).lat # -1
                           /\ TempSample(c[1], c[2]).lon # -1
                           /\ IsNaN(temp[c[1]][c[2]])

NotMissingCell(c) == ~InputMissing(c[1], c[2])

\* the cell of the k-th pass of "for i in range(lines): for j in range(pixels)"
RowMajorCell(k) ==
    << (k - 1) \div Size(rrs_box.pixels_per_line),
       (k - 1) % Size(rrs_box.pixels_per_line) >>

\* C13: the loop body runs for the cells of the box-restricted grid in
\* row-major order, each once, and for all of them when the loop has ended;
\* the inversion is called, once, for exactly the visited cells whose leading
\* reflectance, aligned salinity and aligned temperature are all present,
\* which is decided from the cell's own three inputs.
C13_EveryCellOnceInRowMajorOrder ==
    /\ \A k \in 1 .. Len(visited) : visited[k] = RowMajorCell(k)
    /\ pc \in {"report", "cell"} =>
            /\ Len(visited) < TotalCells
            /\ <<i, j>> = RowMajorCell(Len(visited) + 1)
    /\ pc = "done" => Len(visited) = TotalCells
    /\ invoked = SelectSeq(visited, NotMissingCell)

\* A completed pass over a grid of several lines and pixels in which some
\* cells were skipped and some were inverted.
C13_Witness ==
    /\ pc = "done"
    /\ Size(rrs_box.number_of_lines) > 1 /\ Size(rrs_box.pixels_per_line) > 1
    /\ Len(visited) = TotalCells
    /\ Len(invoked) > 1
    /\ Len(invoked) < Len(visited)

\* the prompt that follows prompt p in an attempt, and what follows the last
PromptAfter(p) ==
    CASE p = "north" -> "south"
      [] p = "south" -> "east"
      [] p = "east" -> "west"
      [] p = "west" -> "extract"

\* the limits a refusal at prompt p names, and an accepted value keeps to
LimitsAt(p) ==
    CASE p = "north" -> [lower |-> s_bound, upper |-> n_bound]
      [] p = "south" -> [lower |-> s_bound, upper |-> n]
      [] p = "east" -> [lower |-> w_bound, upper |-> e_bound]
      [] p = "west" -> [lower |-> w_bound, upper |-> e]

\* the bound of prompt p as the step leaves it
BoundAfter(p) ==
    CASE p = "north" -> n'
      [] p = "south" -> s'
      [] p = "east" -> e'
      [] p = "west" -> w'

PromptOrderStep ==
    /\ pc \in PromptStates /\ pc' # pc =>
            /\ pc' = PromptAfter(pc)
            /\ assigned' = assigned \cup {pc}
            /\ Lt(LimitsAt(pc).lower, BoundAfter(pc))
            /\ Lt(BoundAfter(pc), LimitsAt(pc).upper)
    /\ pc \in PromptStates /\ pc' = pc /\ printed'[1] = "Value must be between" =>
            /\ printed'[2] = LimitsAt(pc).upper
            /\ printed'[3] = LimitsAt(pc).lower
    /\ pc' = "extract" => pc \in {"west", "extract"}
    /\ pc = "extract" /\ pc' # pc => assigned = AllBounds

\* C14: an attempt asks north, south, east and west in this order; south is
\* accepted and refused against the north of the same attempt and west
\* against its east, north and east against the coverage extents; and the
\* extraction is reached from the west prompt alone, with all four bounds of
\* the attempt accepted.
C14_PromptsInOrderWithDependentLimits ==
    /\ [][PromptOrderStep]_vars
    /\ [](pc = "south" => "north" \in assigned /\ n.k = "num")
    /\ [](pc = "west" => "east" \in assigned /\ e.k = "num")
    /\ [](pc = "extract" =>
            /\ assigned = AllBounds
            /\ n.k = "num" /\ s.k = "num" /\ e.k = "num" /\ w.k = "num")

\* In an attempt that follows a failed one, a west value inside the coverage
\* but not below the accepted east has been refused against that east.
C14_Witness ==
    /\ pc = "west"
    /\ restarted
    /\ typed = <<"2", "3">>
    /\ e = F(21)
    /\ printed = <<"Value must be between", e, w_bound>>
    /\ assigned = {"north", "south", "east"}

\* C15: the progress report of a cell is written after the cell has been
\* handled, so the counter value written last is the number of cells whose
\* handling has finished.
C15_LastReportCountsFinishedCells ==
    emitted # << >> => emitted[Len(emitted)][1] = Len(visited)

\* pigment field arr differs from its next value at cell (i, j) at most
OnlyCellChanges(arr, arrNext) ==
    /\ DOMAIN arrNext = DOMAIN arr
    /\ \A a \in DOMAIN arr :
        /\ DOMAIN arrNext[a] = DOMAIN arr[a]
        /\ \A b \in DOMAIN arr[a] : <<a, b>> # <<i, j>> => arrNext[a][b] = arr[a][b]

LoopStepFrame ==
    pc \in {"report", "cell"} =>
        /\ UNCHANGED <<Rrs, Rrs_unc, rrs_box, rrs_unc_box, sal, temp, wavelength_coords>>
        /\ OnlyCellChanges(chla, chla')
        /\ OnlyCellChanges(chlb, chlb')
        /\ OnlyCellChanges(chlc, chlc')
        /\ OnlyCellChanges(ppc, ppc')
        /\ pc = "report" \/ InputMissing(i, j) => UNCHANGED pigVars

AllocationStep ==
    pc = "prepare" /\ pc' \in LoopStates =>
        /\ chla' = [a \in DOMAIN rrs_box.number_of_lines |->
                        [b \in DOMAIN rrs_box.pixels_per_line |-> NaN]]
        /\ chlb' = chla' /\ chlc' = chla' /\ ppc' = chla'

\* C16: a step of the loop for cell (i, j) changes no pigment value of any
\* other cell, and none at all when the cell is skipped or the step is the
\* progress report; it leaves the reflectance, the uncertainty, the aligned
\* salinity and temperature and the wavelengths as they are; and the four
\* pigment fields are all missing, for every cell of the box-restricted grid,
\* when the loop starts, and stay missing for the cells it has not reached.
C16_LoopStepWritesItsOwnCellOnly ==
    /\ [][LoopStepFrame]_vars
    /\ [][AllocationStep]_vars
    /\ [](pc \in LoopStates =>
            \A c \in BoxCells :
                (\A k \in 1 .. Len(visited) : visited[k] # c) => PigmentsMissing(c[1], c[2]))

\* In the middle of a pass over a line of several pixels, one cell has been
\* computed, one skipped, and the cell the loop stands at is still missing.
C16_Witness ==
    /\ pc = "cell"
    /\ Size(rrs_box.pixels_per_line) > 1
    /\ Len(invoked) > 0
    /\ Len(invoked) < Len(visited)
    /\ \E c \in BoxCells : ~PigmentsMissing(c[1], c[2])
    /\ PigmentsMissing(i, j)
    /\ ~InputMissing(i, j)

\* cell (a, b) of the box-restricted grid lies strictly inside the bounds
\* the selection was left with
InsideAccepted(a, b) ==
    /\ Lt(s, F(latitude[SwathLine(a)][SwathPixel(b)]))
    /\ Lt(F(latitude[SwathLine(a)][SwathPixel(b)]), n)
    /\ Lt(w, F(longitude[SwathLine(a)][SwathPixel(b)]))
    /\ Lt(F(longitude[SwathLine(a)][SwathPixel(b)]), e)

\* C17: the uncertainty subset is cut with the four bounds of the attempt
\* whose extraction succeeded, so it keeps the scan lines and pixels of the
\* reflectance subset, and cell (i, j) of either is the same swath cell: its
\* uncertainty spectrum where the cell lies inside those bounds, and masked
\* in both where it does not.
C17_UncertaintySubsetMatchesReflectanceSubset ==
    pc \in LoopStates =>
        /\ assigned = AllBounds
        /\ rrs_unc_box.number_of_lines = rrs_box.number_of_lines
        /\ rrs_unc_box.pixels_per_line = rrs_box.pixels_per_line
        /\ DOMAIN rrs_unc_box.data = DOMAIN rrs_box.data
        /\ \A c \in BoxCells :
            IF InsideAccepted(c[1], c[2])
            THEN /\ rrs_unc_box.data[c[1]][c[2]] = Rrs_unc[SwathLine(c[1])][SwathPixel(c[2])]
                 /\ rrs_box.data[c[1]][c[2]] = Rrs[SwathLine(c[1])][SwathPixel(c[2])]
            ELSE /\ rrs_unc_box.data[c[1]][c[2]] = NaNSpectrum
                 /\ rrs_box.data[c[1]][c[2]] = NaNSpectrum

\* The loop runs on a box accepted after a failed attempt, which holds cells
\* inside the bounds and a masked cell, and is smaller than the swath.
C17_Witness ==
    /\ pc = "cell"
    /\ restarted
    /\ Size(rrs_box.number_of_lines) > 1
    /\ Size(rrs_box.number_of_lines) < NumLines
    /\ \E c \in BoxCells : InsideAccepted(c[1], c[2])
    /\ \E c \in BoxCells : ~InsideAccepted(c[1], c[2])

====
